---------------------------- MODULE Spec2Model ----------------------------
(***************************************************************************)
(* The VOR engine, the lineup optimizer and the trade generator of the     *)
(* fantasy-football trade recommender (src/vor.py, src/trade.py,           *)
(* src/models.py).                                                         *)
(*                                                                         *)
(* Numbers.  The program computes with floats.  Points and VOR are         *)
(* modelled as fixed-point integers, 1 unit = 0.01 point, so 1.0 is 100.   *)
(* Inputs are kept to values for which the float operations the code       *)
(* performs (sums, differences, a product with 0.1, rounding to one        *)
(* decimal) are exact in this representation.                              *)
(***************************************************************************)
EXTENDS Integers, Sequences, FiniteSets, TLC

VARIABLES
    pc,                         \* "call" before the method runs, "done" after
    op,                         \* the method the caller invokes
    args,                       \* the arguments of the call
    ret,                        \* what the call returned, or the error it raised
    min_improvement_threshold,  \* TradeAnalyzer.min_improvement_threshold
    max_trade_size              \* TradeAnalyzer.max_trade_size

vars == <<pc, op, args, ret, min_improvement_threshold, max_trade_size>>

-----------------------------------------------------------------------------
(* Program constants *)

\* VORCalculator.DEFAULT_BUFFER_PERCENTAGE = 0.1, in percent
DEFAULT_BUFFER_PERCENTAGE == 10
\* VORCalculator.TE_PREMIUM_BONUS_MULTIPLIER = 0.1, in percent
TE_PREMIUM_BONUS_MULTIPLIER == 10
\* TradeAnalyzer.DEFAULT_MIN_IMPROVEMENT = 1.0, in units of 0.01
DEFAULT_MIN_IMPROVEMENT == 100
\* TradeAnalyzer.DEFAULT_MAX_TRADE_SIZE
DEFAULT_MAX_TRADE_SIZE == 3
\* TradeAnalyzer.DEFAULT_MAX_RESULTS
DEFAULT_MAX_RESULTS == 50
\* TradeAnalyzer.BALANCED_TRADE_THRESHOLD = 1.0, in units of 0.01
BALANCED_TRADE_THRESHOLD == 100
\* TradeRequest.max_players_per_side: Field(default=2, ge=1, le=5)
MAX_PLAYERS_PER_SIDE == 5

\* a position order that knows DEF as well
PositionOrderWithDef == <<"QB", "RB", "WR", "TE", "K", "DST", "DEF">>

\* VORCalculator.position_order and VORCalculator.flex_positions
position_order == <<"QB", "RB", "WR", "TE", "K", "DST">>
flex_positions == <<"RB", "WR", "TE">>

\* the closed position set of Player.validate_position
allowed_positions == {"QB", "RB", "WR", "TE", "K", "DST", "DEF"}

\* Python's None for an optional field
None == "None"

-----------------------------------------------------------------------------
(* Python built-ins the code relies on *)

Min(a, b) == IF a <= b THEN a ELSE b
Max(a, b) == IF a >= b THEN a ELSE b
Abs(a) == IF a >= 0 THEN a ELSE -a

\* int(n / d) for d > 0: float-to-int conversion truncates toward zero
TruncDiv(n, d) == IF n >= 0 THEN n \div d ELSE -((-n) \div d)

\* dict.get(key, default)
Get(d, k, default) == IF k \in DOMAIN d THEN d[k] ELSE default

\* truthiness of an Optional[str]
Truthy(s) == s /= None /\ s /= ""

\* the range of a sequence
Range(s) == {s[i] : i \in 1..Len(s)}

\* sum of a sequence of integers
RECURSIVE SumSeq(_)
SumSeq(s) == IF s = <<>> THEN 0 ELSE Head(s) + SumSeq(Tail(s))

\* list.sort(key=..., reverse=True): a stable sort, descending by key; elements
\* with equal keys keep their original order.  keys[i] is the key of s[i];
\* the places of s are sorted and the elements follow
SortDescInsert(t, i, keys) ==
    LET k == Cardinality({j \in 1..Len(t) : keys[t[j]] >= keys[i]})
    IN  SubSeq(t, 1, k) \o <<i>> \o SubSeq(t, k + 1, Len(t))

SortDesc(s, keys) ==
    LET RECURSIVE Go(_)
        Go(i) == IF i = 0 THEN <<>> ELSE SortDescInsert(Go(i - 1), i, keys)
        order == Go(Len(s))
    IN  [n \in 1..Len(s) |-> s[order[n]]]

\* round(x, 1) of a value held in units of 0.01: to the nearest multiple of
\* 0.1; a value exactly halfway goes to the even tenth
Round1(x) ==
    LET a == Abs(x)
        r == a % 10
        lo == a - r
        m == IF r < 5 THEN lo
             ELSE IF r > 5 THEN lo + 10
             ELSE IF (lo \div 10) % 2 = 0 THEN lo ELSE lo + 10
    IN  IF x >= 0 THEN m ELSE -m

\* a slot lookup that gives a position without a RosterSlots field one slot
GetSlotDefaultOne(roster_slots, position) ==
    IF position \in DOMAIN roster_slots THEN roster_slots[position] ELSE 1

\* getattr(roster_slots, position, 0): RosterSlots has the fields QB, RB, WR,
\* TE, FLEX, SUPERFLEX and BENCH and no field K or DST
GetSlot(roster_slots, position) ==
    IF position \in DOMAIN roster_slots THEN roster_slots[position] ELSE 0

-----------------------------------------------------------------------------
(* VORCalculator: replacement baselines and VOR (src/vor.py) *)

\* the outcome of a call: the value returned, or the exception raised
Returned(v) == [raised |-> None, value |-> v]
Raised(e) == [raised |-> e, value |-> 0]

\* list[i] for a Python index i, which may be negative (counted from the end)
\* and raises IndexError outside -len .. len-1
PyIndex(list, i) ==
    IF 0 <= i /\ i < Len(list) THEN Returned(list[i + 1])
    ELSE IF i < 0 /\ -i <= Len(list) THEN Returned(list[Len(list) + i + 1])
    ELSE Raised("IndexError")

ros_points_key(p) == p.ros_points

\* the players of one position left in the order of the projections list
PositionPlayersUnsorted(fp_players, pos) ==
    SelectSeq(fp_players, LAMBDA p : p.position = pos)

\* the FantasyPros players of one position, sorted by ros_points descending
PositionPlayers(fp_players, pos) ==
    LET ps == SelectSeq(fp_players, LAMBDA p : p.position = pos)
    IN  SortDesc(ps, [i \in 1..Len(ps) |-> ros_points_key(ps[i])])

_group_players_by_position(fp_players) ==
    [pos \in {fp_players[i].position : i \in 1..Len(fp_players)} |->
        PositionPlayers(fp_players, pos)]

\* a replacement rank that gives each FLEX position a fractional share of
\* the FLEX slots, (base + FLEX / 3) * num_teams, instead of FLEX // 3
ReplacementRankFractionalFlex(position, roster_slots, num_teams, buffer_percentage) ==
    LET base_starters == GetSlot(roster_slots, position)
        thirds == IF position \in Range(flex_positions)
                  THEN Len(flex_positions) * base_starters + roster_slots.FLEX
                  ELSE Len(flex_positions) * base_starters
    IN  TruncDiv(thirds * num_teams * (100 + buffer_percentage),
                 100 * Len(flex_positions))

\* the replacement rank of a position: int(total_starters * (1 + buffer))
ReplacementRank(position, roster_slots, num_teams, buffer_percentage) ==
    LET base_starters == GetSlot(roster_slots, position)
        flex_starters == IF position \in Range(flex_positions)
                         THEN roster_slots.FLEX \div Len(flex_positions)
                         ELSE 0
        total_starters == (base_starters + flex_starters) * num_teams
    IN  TruncDiv(total_starters * (100 + buffer_percentage), 100)

\* a baseline that falls back to the first, not the last, player of the list
PositionBaselineFirstFallback(position, position_players, roster_slots, num_teams, buffer_percentage) ==
    IF position_players = <<>> THEN Returned(0)
    ELSE LET replacement_rank ==
                 ReplacementRank(position, roster_slots, num_teams, buffer_percentage)
         IN  IF replacement_rank < Len(position_players)
             THEN LET at == PyIndex(position_players, replacement_rank)
                  IN  IF at.raised /= None THEN at
                      ELSE Returned(at.value.ros_points)
             ELSE Returned(position_players[1].ros_points)

_calculate_position_baseline(position, position_players, roster_slots, num_teams, buffer_percentage) ==
    IF position_players = <<>> THEN Returned(0)
    ELSE LET replacement_rank ==
                 ReplacementRank(position, roster_slots, num_teams, buffer_percentage)
         IN  IF replacement_rank < Len(position_players)
             THEN LET at == PyIndex(position_players, replacement_rank)
                  IN  IF at.raised /= None THEN at
                      ELSE Returned(at.value.ros_points)
             ELSE Returned(position_players[Len(position_players)].ros_points)

calculate_replacement_baselines(fp_players, roster_slots, num_teams, buffer_percentage) ==
    LET players_by_pos == _group_players_by_position(fp_players)
        one(position) ==
            _calculate_position_baseline(position,
                Get(players_by_pos, position, <<>>),
                roster_slots, num_teams, buffer_percentage)
        failed == {i \in 1..Len(position_order) : one(position_order[i]).raised /= None}
    IN  IF failed /= {}
        THEN one(position_order[CHOOSE i \in failed : \A j \in failed : i <= j])
        ELSE Returned([position \in Range(position_order) |-> one(position).value])

\* fp_lookup: the last FantasyPros player of each truthy slug
FpLookup(fp_players) ==
    LET slugs == {fp_players[i].fp_slug : i \in 1..Len(fp_players)}
    IN  [s \in {x \in slugs : Truthy(x)} |->
            fp_players[CHOOSE i \in 1..Len(fp_players) :
                /\ fp_players[i].fp_slug = s
                /\ \A j \in 1..Len(fp_players) : fp_players[j].fp_slug = s => j <= i]]

\* the VOR of one player before the clamp: 0 without a linked projection,
\* else points minus baseline, plus the TE premium bonus
RawPlayerVor(player, fp_lookup, baselines, te_premium) ==
    LET linked == Truthy(player.fp_slug) /\ player.fp_slug \in DOMAIN fp_lookup
        fp_player == fp_lookup[player.fp_slug]
        baseline == Get(baselines, player.position, 0)
        raw_vor == fp_player.ros_points - baseline
        te_bonus == (fp_player.ros_points * TE_PREMIUM_BONUS_MULTIPLIER) \div 100
    IN  IF ~linked THEN 0
        ELSE IF te_premium /\ player.position = "TE" THEN raw_vor + te_bonus
        ELSE raw_vor

\* a scorer that forgets the clamp
PlayerVorUnclamped(player, fp_lookup, baselines, te_premium) ==
    RawPlayerVor(player, fp_lookup, baselines, te_premium)

\* vor_values[player.id] = max(vor, 0.0)
PlayerVor(player, fp_lookup, baselines, te_premium) ==
    Max(RawPlayerVor(player, fp_lookup, baselines, te_premium), 0)

calculate_vor(players, fp_players, roster_slots, te_premium, num_teams) ==
    LET baselines == calculate_replacement_baselines(fp_players, roster_slots,
                         num_teams, DEFAULT_BUFFER_PERCENTAGE)
        fp_lookup == FpLookup(fp_players)
        ids == {players[i].id : i \in 1..Len(players)}
        last(id) == CHOOSE i \in 1..Len(players) :
                        /\ players[i].id = id
                        /\ \A j \in 1..Len(players) : players[j].id = id => j <= i
    IN  IF baselines.raised /= None THEN baselines
        ELSE Returned([id \in ids |->
                 PlayerVor(players[last(id)], fp_lookup, baselines.value, te_premium)])

-----------------------------------------------------------------------------
(* VORCalculator.apply_injury_penalty (src/vor.py) *)

\* An injury status is the record [given, chars]: given is FALSE for None,
\* chars is the string as a sequence of characters.

\* INJURY_PENALTIES, in percent
INJURY_PENALTIES ==
    (<<"O", "U", "T">> :> 100)
    @@ (<<"D", "O", "U", "B", "T", "F", "U", "L">> :> 70)
    @@ (<<"Q", "U", "E", "S", "T", "I", "O", "N", "A", "B", "L", "E">> :> 15)
    @@ (<<"P", "R", "O", "B", "A", "B", "L", "E">> :> 5)

\* the upper-case letter of each lower-case letter
UpperCase ==
    [c \in {"a", "b", "c", "d", "e", "f", "g", "h", "i", "j", "k", "l", "m", "n",
            "o", "p", "q", "r", "s", "t", "u", "v", "w", "x", "y", "z"} |->
        CASE c = "a" -> "A" [] c = "b" -> "B" [] c = "c" -> "C" [] c = "d" -> "D"
          [] c = "e" -> "E" [] c = "f" -> "F" [] c = "g" -> "G" [] c = "h" -> "H"
          [] c = "i" -> "I" [] c = "j" -> "J" [] c = "k" -> "K" [] c = "l" -> "L"
          [] c = "m" -> "M" [] c = "n" -> "N" [] c = "o" -> "O" [] c = "p" -> "P"
          [] c = "q" -> "Q" [] c = "r" -> "R" [] c = "s" -> "S" [] c = "t" -> "T"
          [] c = "u" -> "U" [] c = "v" -> "V" [] c = "w" -> "W" [] c = "x" -> "X"
          [] c = "y" -> "Y" [] c = "z" -> "Z"]

\* str.upper(): lower-case letters become upper-case, other characters stay
Upper(chars) ==
    [i \in 1..Len(chars) |->
        IF chars[i] \in DOMAIN UpperCase THEN UpperCase[chars[i]] ELSE chars[i]]

\* a penalty lookup that compares the status as it is written
ApplyInjuryPenaltyCaseSensitive(vor, injury_status) ==
    IF ~injury_status.given \/ injury_status.chars = <<>> THEN vor * 100
    ELSE IF injury_status.chars \in DOMAIN INJURY_PENALTIES
         THEN vor * (100 - INJURY_PENALTIES[injury_status.chars])
         ELSE vor * 100

\* vor is in units of 0.01 and the penalty in percent: the value returned is
\* in units of 0.0001, so that vor * (1 - penalty_factor) is exact
apply_injury_penalty(vor, injury_status) ==
    IF ~injury_status.given \/ injury_status.chars = <<>> THEN vor * 100
    ELSE LET status == Upper(injury_status.chars)
         IN  IF status \in DOMAIN INJURY_PENALTIES
             THEN vor * (100 - INJURY_PENALTIES[status])
             ELSE vor * 100

-----------------------------------------------------------------------------
(* VORCalculator.calculate_lineup_vor: the lineup optimizer (src/vor.py) *)

vor_key(e) == e.vor

\* position_players[pos]: the (player, vor) entries of one position, sorted by
\* VOR descending.  idx is the entry's place in lineup_players; the code does
\* not keep it, it only tells the entries of the list apart here.
PositionEntries(lineup_players, vor_values, pos) ==
    LET entries == [i \in 1..Len(lineup_players) |->
                       [idx |-> i, player |-> lineup_players[i],
                        vor |-> Get(vor_values, lineup_players[i].id, 0)]]
        es == SelectSeq(entries, LAMBDA e : e.player.position = pos)
    IN  SortDesc(es, [i \in 1..Len(es) |-> vor_key(es[i])])

\* one fixed-slot selection step: count the entry unless its id is used
TakeEntry(st, e) ==
    IF e.player.id \notin st.used_players
    THEN [total_vor |-> st.total_vor + e.vor,
          used_players |-> st.used_players \cup {e.player.id},
          picked |-> Append(st.picked, e.idx)]
    ELSE st

\* for i in range(min(required, len(available))): take available[i]
RECURSIVE TakeFixed(_, _, _)
TakeFixed(st, available, n) ==
    IF n <= 0 \/ available = <<>> THEN st
    ELSE TakeFixed(TakeEntry(st, Head(available)), Tail(available), n - 1)

\* the fixed-slot loop over QB, RB, WR, TE, K, DST
RECURSIVE FillRequired(_, _, _, _, _)
FillRequired(st, positions, lineup_players, vor_values, roster_slots) ==
    IF positions = <<>> THEN st
    ELSE LET pos == Head(positions)
             required == GetSlot(roster_slots, pos)
             available == PositionEntries(lineup_players, vor_values, pos)
         IN  FillRequired(
                 TakeFixed(st, available, Min(required, Len(available))),
                 Tail(positions), lineup_players, vor_values, roster_slots)

\* a FLEX pool that forgets to leave out the players the fixed slots used
RECURSIVE FlexPoolUnfiltered(_, _, _, _)
FlexPoolUnfiltered(positions, used_players, lineup_players, vor_values) ==
    IF positions = <<>> THEN <<>>
    ELSE PositionEntries(lineup_players, vor_values, Head(positions))
         \o FlexPoolUnfiltered(Tail(positions), used_players, lineup_players,
                               vor_values)

\* the entries of the FLEX positions whose id the fixed slots did not use,
\* position by position
RECURSIVE FlexPool(_, _, _, _)
FlexPool(positions, used_players, lineup_players, vor_values) ==
    IF positions = <<>> THEN <<>>
    ELSE SelectSeq(PositionEntries(lineup_players, vor_values, Head(positions)),
                   LAMBDA e : e.player.id \notin used_players)
         \o FlexPool(Tail(positions), used_players, lineup_players, vor_values)

\* FLEX candidates left in position order, without the sort by VOR
FlexCandidatesUnsorted(used_players, lineup_players, vor_values) ==
    FlexPool(flex_positions, used_players, lineup_players, vor_values)

\* flex_candidates after flex_candidates.sort(key=vor, reverse=True)
FlexCandidates(used_players, lineup_players, vor_values) ==
    LET pool == FlexPool(flex_positions, used_players, lineup_players, vor_values)
    IN  SortDesc(pool, [i \in 1..Len(pool) |-> vor_key(pool[i])])

\* a FLEX step that selects the entry and forgets to add its VOR
TakeFlexEntryNoTotal(st, e) ==
    [total_vor |-> st.total_vor,
     used_players |-> st.used_players \cup {e.player.id},
     picked |-> Append(st.picked, e.idx)]

\* one FLEX selection step: the entry is counted without a look at used_players
TakeFlexEntry(st, e) ==
    [total_vor |-> st.total_vor + e.vor,
     used_players |-> st.used_players \cup {e.player.id},
     picked |-> Append(st.picked, e.idx)]

RECURSIVE TakeFlex(_, _, _)
TakeFlex(st, candidates, n) ==
    IF n <= 0 \/ candidates = <<>> THEN st
    ELSE TakeFlex(TakeFlexEntry(st, Head(candidates)), Tail(candidates), n - 1)

\* an optimizer that fills the SUPERFLEX slots too, from the FLEX candidates
SelectLineupWithSuperflex(lineup_players, vor_values, roster_slots) ==
    LET start == [total_vor |-> 0, used_players |-> {}, picked |-> <<>>]
        fixed == FillRequired(start, <<"QB", "RB", "WR", "TE", "K", "DST">>,
                              lineup_players, vor_values, roster_slots)
        flex_candidates == FlexCandidates(fixed.used_players, lineup_players,
                                          vor_values)
    IN  TakeFlex(fixed, flex_candidates,
                 Min(roster_slots.FLEX + roster_slots.SUPERFLEX,
                     Len(flex_candidates)))

\* the lineup the optimizer selects: its total VOR, the ids it marked used and
\* the places in lineup_players of the entries it counted, in selection order
SelectLineup(lineup_players, vor_values, roster_slots) ==
    LET start == [total_vor |-> 0, used_players |-> {}, picked |-> <<>>]
        fixed == FillRequired(start, <<"QB", "RB", "WR", "TE", "K", "DST">>,
                              lineup_players, vor_values, roster_slots)
        flex_candidates == FlexCandidates(fixed.used_players, lineup_players,
                                          vor_values)
    IN  TakeFlex(fixed, flex_candidates,
                 Min(roster_slots.FLEX, Len(flex_candidates)))

calculate_lineup_vor(lineup_players, vor_values, roster_slots) ==
    SelectLineup(lineup_players, vor_values, roster_slots).total_vor

-----------------------------------------------------------------------------
(* TradeAnalyzer: the trade generator (src/trade.py) *)

\* pairs that may take one place twice, as combinations_with_replacement does
RECURSIVE Combinations2WithRepeats(_)
Combinations2WithRepeats(s) ==
    IF s = <<>> THEN <<>>
    ELSE [j \in 1..Len(s) |-> <<s[1], s[j]>>] \o Combinations2WithRepeats(Tail(s))

\* itertools.permutations(s, 2): every pair of two places in both orders
Permutations2(s) ==
    LET n == Len(s)
        places == [k \in 1..(n * (n - 1)) |->
                      LET i == ((k - 1) \div (n - 1)) + 1
                          r == ((k - 1) % (n - 1)) + 1
                      IN  <<i, IF r < i THEN r ELSE r + 1>>]
    IN  IF n < 2 THEN <<>>
        ELSE [k \in 1..(n * (n - 1)) |-> <<s[places[k][1]], s[places[k][2]]>>]

\* itertools.combinations(s, 2): the pairs in the order of their places
RECURSIVE Combinations2(_)
Combinations2(s) ==
    IF Len(s) < 2 THEN <<>>
    ELSE [j \in 1..(Len(s) - 1) |-> <<s[1], s[j + 1]>>] \o Combinations2(Tail(s))

\* the one-player sides [p] of a pool
Singles(s) == [i \in 1..Len(s) |-> <<s[i]>>]

\* for a in A: for b in B: the pairs (a, b) in loop order
NestedLoop(A, B) ==
    [k \in 1..(Len(A) * Len(B)) |->
        [my_players |-> A[((k - 1) \div Len(B)) + 1],
         their_players |-> B[((k - 1) % Len(B)) + 1]]]

\* the candidates each generator hands to _evaluate_trade, in order
SinglePlayerCandidates(my_players, their_players) ==
    NestedLoop(Singles(my_players), Singles(their_players))

UnevenCandidates(my_players, their_players) ==
    NestedLoop(Combinations2(my_players), Singles(their_players))
    \o NestedLoop(Singles(my_players), Combinations2(their_players))

EvenMultiPlayerCandidates(my_players, their_players) ==
    NestedLoop(Combinations2(my_players), Combinations2(their_players))

\* a candidate pool that lets players of VOR 0 in
TradeablePlayersWithZero(roster, vor_values) ==
    SelectSeq(roster.players, LAMBDA p : Get(vor_values, p.id, 0) >= 0)

\* the candidate pool of a roster: its players with strictly positive VOR
TradeablePlayers(roster, vor_values) ==
    SelectSeq(roster.players, LAMBDA p : Get(vor_values, p.id, 0) > 0)

\* a generator that runs every shape whatever the options say
TeamCandidatesUngated(my_roster, their_roster, vor_values, max_players_per_side, consider_2_for_1) ==
    LET my_players == TradeablePlayers(my_roster, vor_values)
        their_players == TradeablePlayers(their_roster, vor_values)
    IN  SinglePlayerCandidates(my_players, their_players)
        \o UnevenCandidates(my_players, their_players)
        \o EvenMultiPlayerCandidates(my_players, their_players)

\* a generator that builds the two-player shapes for a limit of exactly 2
TeamCandidatesExactlyTwo(my_roster, their_roster, vor_values, max_players_per_side, consider_2_for_1) ==
    LET my_players == TradeablePlayers(my_roster, vor_values)
        their_players == TradeablePlayers(their_roster, vor_values)
    IN  SinglePlayerCandidates(my_players, their_players)
        \o (IF consider_2_for_1 /\ max_players_per_side = 2
            THEN UnevenCandidates(my_players, their_players) ELSE <<>>)
        \o (IF max_players_per_side = 2
            THEN EvenMultiPlayerCandidates(my_players, their_players) ELSE <<>>)

\* every candidate _generate_team_trades evaluates against one roster
TeamCandidates(my_roster, their_roster, vor_values, max_players_per_side, consider_2_for_1) ==
    LET my_players == TradeablePlayers(my_roster, vor_values)
        their_players == TradeablePlayers(their_roster, vor_values)
    IN  SinglePlayerCandidates(my_players, their_players)
        \o (IF consider_2_for_1 /\ max_players_per_side >= 2
            THEN UnevenCandidates(my_players, their_players) ELSE <<>>)
        \o (IF max_players_per_side >= 2
            THEN EvenMultiPlayerCandidates(my_players, their_players) ELSE <<>>)

\* a roster after a trade: its players whose id is not traded out, then the
\* players traded in
PostTrade(roster, out_players, in_players) ==
    SelectSeq(roster.players,
              LAMBDA p : p.id \notin {out_players[i].id : i \in 1..Len(out_players)})
    \o in_players

\* notes that name the side with the smaller improvement as the one ahead
\* (the bye-week note and the fallback summary are left out)
TradeNotesSidesSwapped(my_players, their_players, my_improvement, their_improvement) ==
    LET my_positions == [i \in 1..Len(my_players) |-> my_players[i].position]
        their_positions == [i \in 1..Len(their_players) |-> their_players[i].position]
        position_note ==
            IF /\ Cardinality(Range(my_positions)) = 1
               /\ Cardinality(Range(their_positions)) = 1
               /\ my_positions[1] /= their_positions[1]
            THEN <<[note |-> "You get help, they get depth",
                    help |-> their_positions[1], depth |-> my_positions[1]]>>
            ELSE <<>>
        balance_note ==
            IF Abs(my_improvement - their_improvement) < BALANCED_TRADE_THRESHOLD
            THEN <<[note |-> "Balanced trade benefits both teams equally"]>>
            ELSE IF my_improvement > their_improvement
            THEN <<[note |-> "Slight advantage to them"]>>
            ELSE <<[note |-> "Slight advantage to you"]>>
    IN  position_note \o balance_note

\* notes whose balance rule has no final else: nothing is noted when the
\* other side's improvement is the larger one by the threshold or more
TradeNotesWithoutElse(my_players, their_players, my_improvement, their_improvement) ==
    LET my_positions == [i \in 1..Len(my_players) |-> my_players[i].position]
        their_positions == [i \in 1..Len(their_players) |-> their_players[i].position]
        position_note ==
            IF /\ Cardinality(Range(my_positions)) = 1
               /\ Cardinality(Range(their_positions)) = 1
               /\ my_positions[1] /= their_positions[1]
            THEN <<[note |-> "You get help, they get depth",
                    help |-> their_positions[1], depth |-> my_positions[1]]>>
            ELSE <<>>
        balance_note ==
            IF Abs(my_improvement - their_improvement) < BALANCED_TRADE_THRESHOLD
            THEN <<[note |-> "Balanced trade benefits both teams equally"]>>
            ELSE IF my_improvement > their_improvement
            THEN <<[note |-> "Slight advantage to you"]>>
            ELSE <<>>
        my_teams == {x \in {my_players[i].team : i \in 1..Len(my_players)} : Truthy(x)}
        their_teams ==
            {x \in {their_players[i].team : i \in 1..Len(their_players)} : Truthy(x)}
        bye_note ==
            IF my_teams \cap their_teams /= {}
            THEN <<[note |-> "Watch for bye week conflicts"]>>
            ELSE <<>>
        notes == position_note \o balance_note \o bye_note
    IN  IF notes = <<>>
        THEN <<[note |-> "Mutual benefit", me |-> Round1(my_improvement),
                them |-> Round1(their_improvement)]>>
        ELSE notes

_generate_trade_notes(my_players, their_players, my_improvement, their_improvement) ==
    LET my_positions == [i \in 1..Len(my_players) |-> my_players[i].position]
        their_positions == [i \in 1..Len(their_players) |-> their_players[i].position]
        position_note ==
            IF /\ Cardinality(Range(my_positions)) = 1
               /\ Cardinality(Range(their_positions)) = 1
               /\ my_positions[1] /= their_positions[1]
            THEN <<[note |-> "You get help, they get depth",
                    help |-> their_positions[1], depth |-> my_positions[1]]>>
            ELSE <<>>
        balance_note ==
            IF Abs(my_improvement - their_improvement) < BALANCED_TRADE_THRESHOLD
            THEN <<[note |-> "Balanced trade benefits both teams equally"]>>
            ELSE IF my_improvement > their_improvement
            THEN <<[note |-> "Slight advantage to you"]>>
            ELSE <<[note |-> "Slight advantage to them"]>>
        my_teams == {x \in {my_players[i].team : i \in 1..Len(my_players)} : Truthy(x)}
        their_teams ==
            {x \in {their_players[i].team : i \in 1..Len(their_players)} : Truthy(x)}
        bye_note ==
            IF my_teams \cap their_teams /= {}
            THEN <<[note |-> "Watch for bye week conflicts"]>>
            ELSE <<>>
        notes == position_note \o balance_note \o bye_note
    IN  IF notes = <<>>
        THEN <<[note |-> "Mutual benefit", me |-> Round1(my_improvement),
                them |-> Round1(their_improvement)]>>
        ELSE notes

TradePlayers(players, vor_values) ==
    [i \in 1..Len(players) |->
        [player |-> players[i].name, pos |-> players[i].position,
         vor |-> Get(vor_values, players[i].id, 0)]]

\* improvements that take the post-trade lineup VOR as the gain, without
\* subtracting what the roster was worth before
ImprovementsOverNothing(my_players, their_players, my_roster, their_roster, vor_values, roster_slots) ==
    LET my_post_trade == PostTrade(my_roster, my_players, their_players)
        their_post_trade == PostTrade(their_roster, their_players, my_players)
    IN  [me |-> calculate_lineup_vor(my_post_trade, vor_values, roster_slots),
         them |-> calculate_lineup_vor(their_post_trade, vor_values, roster_slots)]

\* the two improvements of a candidate: post-trade minus current lineup VOR
Improvements(my_players, their_players, my_roster, their_roster, vor_values, roster_slots) ==
    LET my_current_vor ==
            calculate_lineup_vor(my_roster.players, vor_values, roster_slots)
        their_current_vor ==
            calculate_lineup_vor(their_roster.players, vor_values, roster_slots)
        my_post_trade == PostTrade(my_roster, my_players, their_players)
        their_post_trade == PostTrade(their_roster, their_players, my_players)
        my_new_vor == calculate_lineup_vor(my_post_trade, vor_values, roster_slots)
        their_new_vor ==
            calculate_lineup_vor(their_post_trade, vor_values, roster_slots)
    IN  [me |-> my_new_vor - my_current_vor,
         them |-> their_new_vor - their_current_vor]

\* an acceptance test content with one side's improvement
AcceptsEitherSide(imp, threshold) == imp.me >= threshold \/ imp.them >= threshold

\* the acceptance test of _evaluate_trade
Accepts(imp, threshold) == imp.me >= threshold /\ imp.them >= threshold

\* _evaluate_trade returns a list here: <<idea>> for a TradeIdea, <<>> for None
_evaluate_trade(my_players, their_players, my_roster, their_roster, vor_values, roster_slots, threshold) ==
    LET imp == Improvements(my_players, their_players, my_roster, their_roster,
                            vor_values, roster_slots)
    IN  IF Accepts(imp, threshold)
        THEN <<[send |-> TradePlayers(my_players, vor_values),
                receive |-> TradePlayers(their_players, vor_values),
                score_me |-> Round1(imp.me),
                score_them |-> Round1(imp.them),
                notes |-> _generate_trade_notes(my_players, their_players,
                                                imp.me, imp.them)]>>
        ELSE <<>>

RECURSIVE EvaluateAll(_, _, _, _, _, _)
EvaluateAll(candidates, my_roster, their_roster, vor_values, roster_slots, threshold) ==
    IF candidates = <<>> THEN <<>>
    ELSE _evaluate_trade(Head(candidates).my_players, Head(candidates).their_players,
                         my_roster, their_roster, vor_values, roster_slots, threshold)
         \o EvaluateAll(Tail(candidates), my_roster, their_roster, vor_values,
                        roster_slots, threshold)

_generate_team_trades(my_roster, their_roster, vor_values, roster_slots, max_players_per_side, consider_2_for_1, threshold) ==
    EvaluateAll(TeamCandidates(my_roster, their_roster, vor_values,
                               max_players_per_side, consider_2_for_1),
                my_roster, their_roster, vor_values, roster_slots, threshold)

\* a league filter that keeps my own team among the opponents
OtherRostersWithMine(my_roster, all_rosters) == all_rosters

\* the rosters of the other teams, in the order of all_rosters
OtherRosters(my_roster, all_rosters) ==
    SelectSeq(all_rosters, LAMBDA r : r.team_id /= my_roster.team_id)

\* trade_ideas before the sort: the accepted proposals of every other roster
RECURSIVE AcceptedTrades(_, _, _, _, _, _, _)
AcceptedTrades(my_roster, other_rosters, vor_values, roster_slots, max_players_per_side, consider_2_for_1, threshold) ==
    IF other_rosters = <<>> THEN <<>>
    ELSE _generate_team_trades(my_roster, Head(other_rosters), vor_values,
             roster_slots, max_players_per_side, consider_2_for_1, threshold)
         \o AcceptedTrades(my_roster, Tail(other_rosters), vor_values,
                roster_slots, max_players_per_side, consider_2_for_1, threshold)

combined_key(t) == t.score_me + t.score_them

\* trade_ideas left in the order the rosters produced them
SortTradesSkipped(trade_ideas) == trade_ideas

\* trade_ideas.sort(key=score_me + score_them, reverse=True)
SortTrades(trade_ideas) ==
    SortDesc(trade_ideas, [i \in 1..Len(trade_ideas) |-> combined_key(trade_ideas[i])])

\* trade_ideas[:DEFAULT_MAX_RESULTS]
TopTrades(trade_ideas) ==
    SubSeq(trade_ideas, 1, Min(Len(trade_ideas), DEFAULT_MAX_RESULTS))

generate_trade_ideas(my_roster, all_rosters, vor_values, roster_slots, max_players_per_side, consider_2_for_1, threshold) ==
    TopTrades(SortTrades(
        AcceptedTrades(my_roster, OtherRosters(my_roster, all_rosters),
            vor_values, roster_slots, max_players_per_side, consider_2_for_1,
            threshold)))

-----------------------------------------------------------------------------
(* ReciteService.recite_player_info (src/recite.py) *)

\* Player.vor is Optional[float]: <<>> for None, <<v>> for the value v

\* list[:n] for a Python int n: the first n elements, all of them when n is
\* larger than the list, all but the last -n when n is negative
PySlicePrefix(list, n) ==
    IF n >= 0 THEN SubSeq(list, 1, Min(n, Len(list)))
    ELSE SubSeq(list, 1, Max(Len(list) + n, 0))

\* key=lambda p: p.vor if p.vor is not None else 0
recite_vor_key(p) == IF p.vor /= <<>> THEN p.vor[1] ELSE 0

\* position_groups, as the number of players of each position
PositionBreakdown(players) ==
    [pos \in {players[i].position : i \in 1..Len(players)} |->
        Cardinality({i \in 1..Len(players) : players[i].position = pos})]

\* the fields of the result that do not depend on the clock (timestamp is
\* left out)
recite_player_info(players, limit) ==
    IF players = <<>>
    THEN [message |-> "No players provided", total_players |-> 0]
    ELSE LET shown == PySlicePrefix(players, limit)
             sorted_players ==
                 SortDesc(shown, [i \in 1..Len(shown) |-> recite_vor_key(shown[i])])
         IN  [total_players |-> Len(players),
              players_shown |-> Len(sorted_players),
              position_breakdown |-> PositionBreakdown(players),
              top_players |-> [i \in 1..Len(sorted_players) |->
                  [name |-> sorted_players[i].name,
                   position |-> sorted_players[i].position,
                   team |-> sorted_players[i].team,
                   vor |-> sorted_players[i].vor]]]

-----------------------------------------------------------------------------
(* The inputs the calls are checked on *)

\* longest list of projections, of players to score, of players in a lineup pool
MaxProjections == 3
MaxPlayers == 2
MaxPool == 4
\* largest num_teams
MaxNumTeams == 3

\* the sequence of the elements of catalogue at the places in S, in order
RECURSIVE PickPlaces(_, _, _)
PickPlaces(catalogue, S, from) ==
    IF from > Len(catalogue) THEN <<>>
    ELSE (IF from \in S THEN <<catalogue[from]>> ELSE <<>>)
         \o PickPlaces(catalogue, S, from + 1)

\* every list of at most n elements taken from catalogue in catalogue order
ListsFrom(catalogue, n) ==
    {PickPlaces(catalogue, S, 1) :
        S \in {T \in SUBSET (1..Len(catalogue)) : Cardinality(T) <= n}}

FantasyProPlayer(position, ros_points, fp_slug) ==
    [position |-> position, ros_points |-> ros_points, fp_slug |-> fp_slug]

\* projections: two positions, equal and different points, slugs that repeat
\* (the later record wins in fp_lookup) and records without a slug
FpCatalogue ==
    << FantasyProPlayer("QB", 1000, "a"), FantasyProPlayer("QB", 500, "b"),
       FantasyProPlayer("TE", 500, "a"),  FantasyProPlayer("QB", 1000, None),
       FantasyProPlayer("TE", 1000, "b"), FantasyProPlayer("QB", 0, ""),
       FantasyProPlayer("TE", 500, "c") >>

ProjectionLists == ListsFrom(FpCatalogue, MaxProjections)

ScoredPlayer(id, position, fp_slug) ==
    [id |-> id, position |-> position, fp_slug |-> fp_slug]

\* players to score: linked and unlinked, a slug no projection has, and two
\* records with one id
ScoredCatalogue ==
    << ScoredPlayer(1, "QB", "a"), ScoredPlayer(2, "TE", "b"),
       ScoredPlayer(1, "TE", "a"), ScoredPlayer(3, "QB", None),
       ScoredPlayer(2, "QB", "zz"), ScoredPlayer(3, "TE", "c") >>

ScoredLists == ListsFrom(ScoredCatalogue, MaxPlayers)

RosterSlots(qb, rb, wr, te, flex) ==
    [QB |-> qb, RB |-> rb, WR |-> wr, TE |-> te, FLEX |-> flex,
     SUPERFLEX |-> 0, BENCH |-> 6]

VorSlotConfigs ==
    {RosterSlots(1, 2, 2, 1, 1), RosterSlots(0, 0, 0, 0, 3),
     RosterSlots(1, 0, 0, 0, 0), RosterSlots(2, 2, 2, 1, 4)}

NumTeams == (-1)..MaxNumTeams

Player(id, name, position, team) ==
    [id |-> id, name |-> name, position |-> position, team |-> team]

\* lineup pools: every position kind (fixed only, FLEX-eligible, no slot at
\* all), and records that share an id
LineupCatalogue ==
    << Player(1, "Allen", "QB", "BUF"),  Player(1, "Allen", "RB", "BUF"),
       Player(2, "Barkley", "RB", "PHI"), Player(3, "Chubb", "RB", "CLE"),
       Player(3, "Chubb", "WR", "CLE"),  Player(4, "Diggs", "WR", "HOU"),
       Player(4, "Diggs", "K", "HOU"),   Player(2, "Barkley", "TE", "PHI") >>

LineupPools == ListsFrom(LineupCatalogue, MaxPool)

\* VOR in units of 0.01: zero, ties and different values
VorValues == {0, 100, 250}

\* VOR maps over the ids 1..4, and one that knows ids 1 and 2 only
LineupVorMaps == [1..4 -> VorValues] \cup {[id \in 1..2 |-> 250]}

LineupSlotConfigs ==
    {RosterSlots(1, 2, 2, 1, 1), RosterSlots(1, 1, 1, 1, 0),
     RosterSlots(0, 0, 0, 0, 2), RosterSlots(0, 1, 1, 0, 1),
     RosterSlots(1, 2, 0, 0, 1)}

\* buffer_percentage in percent: -2.0, 0.0, the default 0.1, 0.5
BufferPercentages == {-200, 0, DEFAULT_BUFFER_PERCENTAGE, 50}

\* longest roster of the general trade calls
MaxRoster == 2

Roster(team_id, players) == [team_id |-> team_id, players |-> players]

\* my players and the other team's: both rosters can hold player 2, and
\* player 3 is an RB on my side and a WR on theirs
MyCatalogue ==
    << Player(1, "Allen", "RB", "BUF"), Player(2, "Barkley", "RB", "PHI"),
       Player(3, "Chubb", "RB", "CLE") >>

TheirCatalogue ==
    << Player(3, "Chubb", "WR", "CLE"), Player(4, "Diggs", "WR", "BUF"),
       Player(2, "Barkley", "RB", "PHI") >>

MyRosters == {Roster("me", ps) : ps \in ListsFrom(MyCatalogue, MaxRoster)}
TheirRosters == {Roster("t1", ps) : ps \in ListsFrom(TheirCatalogue, MaxRoster)}

\* VOR in units of 0.01: 1.04 rounds to 1.0, and no sum or difference of these
\* values lies halfway between two tenths
TradeVorValues == {0, 104, 250}
TradeVorMaps == [1..4 -> TradeVorValues]

TradeSlotConfigs ==
    {RosterSlots(1, 1, 1, 1, 0), RosterSlots(0, 1, 1, 0, 1),
     RosterSlots(0, 0, 0, 0, 2)}

TradeCall(my_roster, all_rosters, vor_values, roster_slots, max_players_per_side, consider_2_for_1) ==
    [my_roster |-> my_roster, all_rosters |-> all_rosters,
     vor_values |-> vor_values, roster_slots |-> roster_slots,
     max_players_per_side |-> max_players_per_side,
     consider_2_for_1 |-> consider_2_for_1]

\* calls with the default options against one other roster: every pair of
\* rosters, every VOR map
PairCalls ==
    {TradeCall(mine, <<theirs>>, vor, slots, 2, TRUE) :
        mine \in MyRosters, theirs \in TheirRosters,
        vor \in TradeVorMaps, slots \in TradeSlotConfigs}

\* a third team, and my own team as the league lists it
ThirdRoster ==
    Roster("t2", << Player(5, "Evans", "WR", "TB"), Player(6, "Fields", "QB", "PIT") >>)
MyListedRoster == Roster("me", << Player(4, "Diggs", "WR", "BUF") >>)

LeagueVorMaps ==
    {[id \in 1..6 |-> 250], [id \in 1..6 |-> IF id % 2 = 0 THEN 104 ELSE 250],
     [id \in 1..5 |-> IF id <= 2 THEN 250 ELSE 104]}

\* calls that vary the options and the league: no roster, my roster only, my
\* roster among the others, two other rosters in both orders
LeagueCalls ==
    {TradeCall(mine, league, vor, RosterSlots(1, 1, 1, 1, 0), m, c) :
        mine \in MyRosters,
        league \in UNION {{<<>>, <<MyListedRoster>>, <<MyListedRoster, theirs>>,
                           <<theirs, ThirdRoster>>, <<ThirdRoster, theirs>>} :
                          theirs \in TheirRosters},
        vor \in LeagueVorMaps, m \in 1..3, c \in BOOLEAN}

\* a league in which one team holds running backs only and two teams hold
\* wide receivers only, so that most candidates are accepted
DeepNames ==
    <<"Gibbs", "Hall", "Irving", "Jones", "Kupp", "Lamb", "Metcalf", "Nacua",
      "Olave">>

DeepRoster(team_id, first, position) ==
    Roster(team_id, [i \in 1..3 |->
        Player(first + i - 1, DeepNames[first + i - 1], position, "FA")])

DeepVorMaps ==
    {[id \in 1..9 |-> IF id <= 3 THEN mine[id] ELSE theirs[((id - 4) % 3) + 1]] :
        mine \in [1..3 -> {104, 250}], theirs \in [1..3 -> {104, 250}]}

DeepCalls ==
    {TradeCall(DeepRoster("me", 1, "RB"),
               <<DeepRoster("t1", 4, "WR"), DeepRoster("t2", 7, "WR")>>,
               vor, RosterSlots(1, 1, 1, 1, 0), m, c) :
        vor \in DeepVorMaps, m \in 1..DEFAULT_MAX_TRADE_SIZE, c \in BOOLEAN}

\* the two-team scenario: roster A holds a QB of VOR 15 and an RB of VOR 12,
\* roster B a QB of VOR 10 and an RB of VOR 8; slots QB=1, RB=1, FLEX=0
ScenarioRosterA ==
    Roster("A", << Player(1, "Allen", "QB", "BUF"), Player(2, "Barkley", "RB", "PHI") >>)
ScenarioRosterB ==
    Roster("B", << Player(3, "Hurts", "QB", "PHI"), Player(4, "Chubb", "RB", "CLE") >>)
ScenarioVor == <<1500, 1200, 1000, 800>>
ScenarioSlots == RosterSlots(1, 1, 0, 0, 0)

ScenarioCalls ==
    {TradeCall(ScenarioRosterA, league, ScenarioVor, ScenarioSlots, m, c) :
        league \in {<<ScenarioRosterB>>, <<ScenarioRosterA, ScenarioRosterB>>},
        m \in 1..2, c \in BOOLEAN}

TradeCalls == PairCalls \cup LeagueCalls \cup DeepCalls \cup ScenarioCalls

-----------------------------------------------------------------------------
(* The state machine: the caller has prepared one call of one service        *)
(* method (op, args); the method runs and returns                            *)

BaselineCalls ==
    {[fp_players |-> fp_players, roster_slots |-> roster_slots,
      num_teams |-> num_teams, buffer_percentage |-> buffer_percentage] :
        fp_players \in ProjectionLists, roster_slots \in VorSlotConfigs,
        num_teams \in NumTeams, buffer_percentage \in BufferPercentages}

VorCalls ==
    {[players |-> players, fp_players |-> fp_players,
      roster_slots |-> roster_slots, te_premium |-> te_premium,
      num_teams |-> num_teams] :
        players \in ScoredLists, fp_players \in ProjectionLists,
        roster_slots \in VorSlotConfigs, te_premium \in BOOLEAN,
        num_teams \in NumTeams}

LineupCalls ==
    {[lineup_players |-> lineup_players, vor_values |-> vor_values,
      roster_slots |-> roster_slots] :
        lineup_players \in LineupPools, vor_values \in LineupVorMaps,
        roster_slots \in LineupSlotConfigs}

\* the services as constructed, and nothing returned yet
Constructed ==
    /\ pc = "call"
    /\ ret = Returned(0)
    /\ min_improvement_threshold = DEFAULT_MIN_IMPROVEMENT
    /\ max_trade_size = DEFAULT_MAX_TRADE_SIZE

\* injury statuses: None, the empty string, the four penalised statuses in
\* upper, lower and mixed case, and statuses without a penalty
StatusGiven(chars) == [given |-> TRUE, chars |-> chars]
InjuryStatuses ==
    {[given |-> FALSE, chars |-> <<>>], StatusGiven(<<>>),
     StatusGiven(<<"O", "U", "T">>), StatusGiven(<<"o", "u", "t">>),
     StatusGiven(<<"O", "u", "t">>), StatusGiven(<<"O", "U", "T", " ">>),
     StatusGiven(<<"D", "O", "U", "B", "T", "F", "U", "L">>),
     StatusGiven(<<"d", "o", "u", "b", "t", "f", "u", "l">>),
     StatusGiven(<<"Q", "U", "E", "S", "T", "I", "O", "N", "A", "B", "L", "E">>),
     StatusGiven(<<"Q", "u", "e", "s", "t", "i", "o", "n", "a", "b", "l", "e">>),
     StatusGiven(<<"P", "R", "O", "B", "A", "B", "L", "E">>),
     StatusGiven(<<"p", "r", "o", "b", "a", "b", "l", "e">>),
     StatusGiven(<<"H", "E", "A", "L", "T", "H", "Y">>),
     StatusGiven(<<"I", "R">>), StatusGiven(<<"i", "r">>),
     StatusGiven(<<"D", "O", "U", "B", "T">>)}

\* VOR in units of 0.01, a negative value included
InjuryVorValues == {-100, 0, 1, 104, 250, 1500}

InjuryCalls ==
    {[vor |-> vor, injury_status |-> injury_status] :
        vor \in InjuryVorValues, injury_status \in InjuryStatuses}

\* longest list of players to recite
MaxRecite == 3

RecitedPlayer(name, position, team, vor) ==
    [name |-> name, position |-> position, team |-> team, vor |-> vor]

\* players with different VOR, equal VOR and no VOR, listed out of VOR order
ReciteCatalogue ==
    << RecitedPlayer("Chubb", "RB", "CLE", <<250>>),
       RecitedPlayer("Allen", "QB", "BUF", <<1500>>),
       RecitedPlayer("Diggs", "WR", "HOU", <<>>),
       RecitedPlayer("Barkley", "RB", "PHI", <<250>>),
       RecitedPlayer("Evans", "WR", "TB", <<-100>>) >>

ReciteCalls ==
    {[players |-> players, limit |-> limit] :
        players \in ListsFrom(ReciteCatalogue, MaxRecite),
        limit \in (-1)..(MaxRecite + 1)}

\* a 12-team league with RB=2 and FLEX=1: a quarterback and n running backs,
\* listed out of rank order, of points 10, 20, ..., all different
ExampleProjections(n) ==
    <<FantasyProPlayer("QB", 1000, "a")>>
    \o [i \in 1..n |-> FantasyProPlayer("RB", ((i * 7) % 31) * 10, None)]

ExampleBaselineCalls ==
    {[fp_players |-> ExampleProjections(n), roster_slots |-> roster_slots,
      num_teams |-> 12, buffer_percentage |-> buffer_percentage] :
        n \in 25..30,
        roster_slots \in {RosterSlots(1, 2, 2, 1, 1), RosterSlots(1, 2, 2, 1, 0),
                          RosterSlots(1, 2, 2, 1, 2)},
        buffer_percentage \in {0, DEFAULT_BUFFER_PERCENTAGE}}

\* projections and players of the defence positions: two DEF projections of
\* different points, one DST projection and a quarterback
DefenceProjections ==
    << FantasyProPlayer("DEF", 800, "d"), FantasyProPlayer("DST", 600, "f"),
       FantasyProPlayer("DEF", 300, "e"), FantasyProPlayer("QB", 1000, "a") >>

DefencePlayers ==
    << ScoredPlayer(7, "DEF", "d"), ScoredPlayer(8, "DEF", "e"),
       ScoredPlayer(9, "DST", "f"), ScoredPlayer(7, "DEF", "zz") >>

DefenceSlotConfigs == {RosterSlots(1, 2, 2, 1, 1), RosterSlots(1, 0, 0, 0, 0)}

DefenceBaselineCalls ==
    {[fp_players |-> fp_players, roster_slots |-> roster_slots,
      num_teams |-> num_teams, buffer_percentage |-> buffer_percentage] :
        fp_players \in ListsFrom(DefenceProjections, MaxProjections),
        roster_slots \in DefenceSlotConfigs, num_teams \in 1..MaxNumTeams,
        buffer_percentage \in {0, DEFAULT_BUFFER_PERCENTAGE}}

DefenceVorCalls ==
    {[players |-> players, fp_players |-> fp_players,
      roster_slots |-> roster_slots, te_premium |-> te_premium,
      num_teams |-> num_teams] :
        players \in ListsFrom(DefencePlayers, MaxPlayers),
        fp_players \in ListsFrom(DefenceProjections, MaxProjections),
        roster_slots \in DefenceSlotConfigs, te_premium \in BOOLEAN,
        num_teams \in 1..MaxNumTeams}

InitVor ==
    /\ Constructed
    /\ \/ op = "calculate_replacement_baselines"
          /\ args \in BaselineCalls \cup ExampleBaselineCalls
                      \cup DefenceBaselineCalls
       \/ op = "calculate_vor" /\ args \in VorCalls \cup DefenceVorCalls
       \/ op = "apply_injury_penalty" /\ args \in InjuryCalls

InitLineup ==
    /\ Constructed
    /\ op = "calculate_lineup_vor" /\ args \in LineupCalls

InitRecite ==
    /\ Constructed
    /\ op = "recite_player_info" /\ args \in ReciteCalls

InitTrade ==
    /\ Constructed
    /\ op = "generate_trade_ideas" /\ args \in TradeCalls

CalculateReplacementBaselines ==
    /\ pc = "call" /\ op = "calculate_replacement_baselines"
    /\ ret' = calculate_replacement_baselines(args.fp_players,
                  args.roster_slots, args.num_teams, args.buffer_percentage)
    /\ pc' = "done"
    /\ UNCHANGED <<op, args, min_improvement_threshold, max_trade_size>>

CalculateVor ==
    /\ pc = "call" /\ op = "calculate_vor"
    /\ ret' = calculate_vor(args.players, args.fp_players, args.roster_slots,
                            args.te_premium, args.num_teams)
    /\ pc' = "done"
    /\ UNCHANGED <<op, args, min_improvement_threshold, max_trade_size>>

ApplyInjuryPenalty ==
    /\ pc = "call" /\ op = "apply_injury_penalty"
    /\ ret' = Returned(apply_injury_penalty(args.vor, args.injury_status))
    /\ pc' = "done"
    /\ UNCHANGED <<op, args, min_improvement_threshold, max_trade_size>>

CalculateLineupVor ==
    /\ pc = "call" /\ op = "calculate_lineup_vor"
    /\ ret' = Returned(calculate_lineup_vor(args.lineup_players,
                           args.vor_values, args.roster_slots))
    /\ pc' = "done"
    /\ UNCHANGED <<op, args, min_improvement_threshold, max_trade_size>>

\* a generator that builds my post-trade roster in my_roster.players itself:
\* the players received in the first candidate stay appended to my roster
GenerateTradeIdeasInPlace ==
    /\ pc = "call" /\ op = "generate_trade_ideas"
    /\ ret' = Returned(generate_trade_ideas(args.my_roster, args.all_rosters,
                  args.vor_values, args.roster_slots,
                  args.max_players_per_side, args.consider_2_for_1,
                  min_improvement_threshold))
    /\ pc' = "done"
    /\ LET others == OtherRosters(args.my_roster, args.all_rosters)
           candidates ==
               IF others = <<>> THEN <<>>
               ELSE TeamCandidates(args.my_roster, Head(others), args.vor_values,
                        args.max_players_per_side, args.consider_2_for_1)
           received == IF candidates = <<>> THEN <<>>
                       ELSE Head(candidates).their_players
       IN  args' = [args EXCEPT !.my_roster.players = @ \o received]
    /\ UNCHANGED <<op, min_improvement_threshold, max_trade_size>>

GenerateTradeIdeas ==
    /\ pc = "call" /\ op = "generate_trade_ideas"
    /\ ret' = Returned(generate_trade_ideas(args.my_roster, args.all_rosters,
                  args.vor_values, args.roster_slots,
                  args.max_players_per_side, args.consider_2_for_1,
                  min_improvement_threshold))
    /\ pc' = "done"
    /\ UNCHANGED <<op, args, min_improvement_threshold, max_trade_size>>

NextVor == CalculateReplacementBaselines \/ CalculateVor \/ ApplyInjuryPenalty

SpecVor == InitVor /\ [][NextVor]_vars

RecitePlayerInfo ==
    /\ pc = "call" /\ op = "recite_player_info"
    /\ ret' = Returned(recite_player_info(args.players, args.limit))
    /\ pc' = "done"
    /\ UNCHANGED <<op, args, min_improvement_threshold, max_trade_size>>

NextRecite == RecitePlayerInfo

SpecRecite == InitRecite /\ [][NextRecite]_vars

NextLineup == CalculateLineupVor

SpecLineup == InitLineup /\ [][NextLineup]_vars

NextTrade == GenerateTradeIdeas

SpecTrade == InitTrade /\ [][NextTrade]_vars

-----------------------------------------------------------------------------
(* Claims about the VOR engine, checked under SpecVor *)

CalledVor == pc = "done" /\ op = "calculate_vor" /\ ret.raised = None
CalledBaselines ==
    pc = "done" /\ op = "calculate_replacement_baselines" /\ ret.raised = None

\* C1: every value in the map calculate_vor returns is >= 0, whatever the
\* players, the projections, the roster slots, te_premium and num_teams.
C1_VorNonNegative ==
    CalledVor => \A id \in DOMAIN ret.value : ret.value[id] >= 0

\* C1 witness: a linked player whose points fall below the baseline, so that
\* the clamp is what makes the stored value 0
C1_ClampActs ==
    /\ CalledVor
    /\ \E i \in 1..Len(args.players) :
          /\ \A j \in 1..Len(args.players) :
                 args.players[j].id = args.players[i].id => j <= i
          /\ RawPlayerVor(args.players[i], FpLookup(args.fp_players),
                 calculate_replacement_baselines(args.fp_players,
                     args.roster_slots, args.num_teams,
                     DEFAULT_BUFFER_PERCENTAGE).value,
                 args.te_premium) < 0
          /\ ret.value[args.players[i].id] = 0

\* the baselines of the same call with another num_teams
BaselinesWithTeams(n) ==
    calculate_replacement_baselines(args.fp_players, args.roster_slots, n,
                                    args.buffer_percentage)

\* C7 as stated: from one positive num_teams to a larger one, no position's
\* baseline decreases.
C7_BaselineNeverDecreases ==
    (CalledBaselines /\ args.num_teams > 0) =>
        \A n \in NumTeams :
            (n > args.num_teams /\ BaselinesWithTeams(n).raised = None) =>
                \A pos \in DOMAIN ret.value :
                    BaselinesWithTeams(n).value[pos] >= ret.value[pos]

\* C7 amended: for a buffer fraction >= 0, from one positive num_teams to a
\* larger one, no position's baseline increases (the larger call returns too).
C7_BaselineNeverIncreases ==
    (CalledBaselines /\ args.num_teams > 0 /\ args.buffer_percentage >= 0) =>
        \A n \in NumTeams :
            n > args.num_teams =>
                /\ BaselinesWithTeams(n).raised = None
                /\ \A pos \in DOMAIN ret.value :
                       BaselinesWithTeams(n).value[pos] <= ret.value[pos]

\* C7 witness: a larger num_teams reaches a strictly lower baseline
C7_BaselineDrops ==
    /\ CalledBaselines /\ args.num_teams > 0 /\ args.buffer_percentage >= 0
    /\ \E n \in NumTeams, pos \in DOMAIN ret.value :
          /\ n > args.num_teams
          /\ BaselinesWithTeams(n).value[pos] < ret.value[pos]

\* the points of the projected players of one position
PointsOf(position) ==
    LET places == {i \in 1..Len(args.fp_players) :
                      args.fp_players[i].position = position}
    IN  [i \in places |-> args.fp_players[i].ros_points]

\* v is the points of the player of 0-based rank k among the points pts, in
\* descending order: at most k players have more, at least k + 1 have v or more
IsRanked(v, k, pts) ==
    /\ \E i \in DOMAIN pts : pts[i] = v
    /\ Cardinality({i \in DOMAIN pts : pts[i] > v}) <= k
    /\ Cardinality({i \in DOMAIN pts : pts[i] >= v}) >= k + 1

\* the baselines of a 12-team league with RB=2, FLEX=1 and buffer 0.1 over at
\* least 27 projected running backs
ExampleCalled ==
    /\ pc = "done" /\ op = "calculate_replacement_baselines"
    /\ args.num_teams = 12
    /\ args.roster_slots.RB = 2 /\ args.roster_slots.FLEX = 1
    /\ args.buffer_percentage = 10
    /\ Cardinality(DOMAIN PointsOf("RB")) >= 27

\* C14: for RB with 12 teams, RB=2, FLEX=1 and buffer 0.1 the replacement
\* index is floor((2 + 1 // 3) * 12 * 1.1) = 26 and the RB baseline is the
\* points of the 27th-ranked running back.
C14_ExampleIndexIs26 ==
    ExampleCalled =>
        /\ args.roster_slots.FLEX \div Len(flex_positions) = 0
        /\ ReplacementRank("RB", args.roster_slots, args.num_teams,
                           args.buffer_percentage) = 26
        /\ ret.raised = None
        /\ IsRanked(ret.value["RB"], 26, PointsOf("RB"))

\* C14 witness: 30 running backs are projected, and the baseline is neither
\* the first nor the last of them
C14_ExampleWithThirtyBacks ==
    /\ ExampleCalled
    /\ Cardinality(DOMAIN PointsOf("RB")) = 30
    /\ \E i, j \in DOMAIN PointsOf("RB") :
          PointsOf("RB")[i] < ret.value["RB"] /\ ret.value["RB"] < PointsOf("RB")[j]

\* the replacement index of a position in the call made
IndexOf(position) ==
    ReplacementRank(position, args.roster_slots, args.num_teams,
                    args.buffer_percentage)

\* C15: for each of QB, RB, WR, TE, K, DST the baseline returned is the points
\* of the player at the replacement index (0-based) of the position's list in
\* descending order of points when the index is within the list, the points
\* of the lowest-ranked player when the index is past the end, and 0 when no
\* player of the position is projected.
C15_BaselineByCase ==
    CalledBaselines =>
        /\ DOMAIN ret.value = {"QB", "RB", "WR", "TE", "K", "DST"}
        /\ \A position \in DOMAIN ret.value :
               LET pts == PointsOf(position)
                   n == Cardinality(DOMAIN pts)
                   k == IndexOf(position)
                   v == ret.value[position]
               IN  /\ n = 0 => v = 0
                   /\ (n > 0 /\ 0 <= k /\ k < n) => IsRanked(v, k, pts)
                   /\ (n > 0 /\ k >= n) =>
                          /\ \E i \in DOMAIN pts : pts[i] = v
                          /\ \A i \in DOMAIN pts : pts[i] >= v

\* C15 witness: one call meets the three cases: a position whose index is
\* within its list and not the first place, while the list is given out of
\* rank order; a position whose index is past the end of its list; a position
\* without projections
C15_ThreeCasesInOneCall ==
    /\ CalledBaselines
    /\ \E position \in DOMAIN ret.value :
          /\ 0 < IndexOf(position)
          /\ IndexOf(position) < Cardinality(DOMAIN PointsOf(position))
          /\ \E i, j \in DOMAIN PointsOf(position) :
                 i < j /\ PointsOf(position)[i] < PointsOf(position)[j]
    /\ \E position \in DOMAIN ret.value :
          /\ DOMAIN PointsOf(position) /= {}
          /\ IndexOf(position) >= Cardinality(DOMAIN PointsOf(position))
    /\ \E position \in DOMAIN ret.value : DOMAIN PointsOf(position) = {}

\* C16: calculate_replacement_baselines and calculate_vor called with
\* num_teams <= 0 raise an error and return no baseline or VOR map.
C16_NonPositiveTeamsRaise ==
    (/\ pc = "done"
     /\ op \in {"calculate_replacement_baselines", "calculate_vor"}
     /\ args.num_teams <= 0) => ret.raised /= None

CalledInjury == pc = "done" /\ op = "apply_injury_penalty"

\* the status spells name when case is ignored
SpellsIgnoringCase(injury_status, name) ==
    /\ injury_status.given
    /\ Len(injury_status.chars) = Len(name)
    /\ \A i \in 1..Len(name) :
           \/ injury_status.chars[i] = name[i]
           \/ /\ injury_status.chars[i] \in DOMAIN UpperCase
              /\ UpperCase[injury_status.chars[i]] = name[i]

\* C18: apply_injury_penalty returns vor * (1 - penalty) for OUT (1.0),
\* DOUBTFUL (0.7), QUESTIONABLE (0.15) and PROBABLE (0.05) in any case of
\* letters, vor itself for an absent, empty or other status, and for
\* vor >= 0 a value between 0 and vor.  The result is in units of 0.0001.
C18_PenaltyByStatus ==
    CalledInjury =>
        LET vor == args.vor
            st == args.injury_status
            out == SpellsIgnoringCase(st, <<"O", "U", "T">>)
            doubtful ==
                SpellsIgnoringCase(st, <<"D", "O", "U", "B", "T", "F", "U", "L">>)
            questionable ==
                SpellsIgnoringCase(st,
                    <<"Q", "U", "E", "S", "T", "I", "O", "N", "A", "B", "L", "E">>)
            probable ==
                SpellsIgnoringCase(st, <<"P", "R", "O", "B", "A", "B", "L", "E">>)
        IN  /\ ret.raised = None
            /\ out => ret.value = 0
            /\ doubtful => ret.value = vor * 30
            /\ questionable => ret.value = vor * 85
            /\ probable => ret.value = vor * 95
            /\ ~(out \/ doubtful \/ questionable \/ probable) =>
                   ret.value = vor * 100
            /\ vor >= 0 => (0 <= ret.value /\ ret.value <= vor * 100)

\* C18 witness: a status written in lower case is penalised
C18_LowerCaseStatusPenalised ==
    /\ CalledInjury
    /\ args.vor > 0
    /\ args.injury_status = StatusGiven(<<"d", "o", "u", "b", "t", "f", "u", "l">>)
    /\ ret.value = args.vor * 30

\* the projections without the ones of position DEF
WithoutDef(fp_players) == SelectSeq(fp_players, LAMBDA p : p.position /= "DEF")

\* the places of the players of position DEF that calculate_vor links to a
\* projection (the last record of an id is the one that is stored)
LinkedDefPlaces ==
    {i \in 1..Len(args.players) :
        /\ args.players[i].position = "DEF"
        /\ \A j \in 1..Len(args.players) :
               args.players[j].id = args.players[i].id => j <= i
        /\ Truthy(args.players[i].fp_slug)
        /\ args.players[i].fp_slug \in DOMAIN FpLookup(args.fp_players)}

ProjectedPoints(i) == FpLookup(args.fp_players)[args.players[i].fp_slug].ros_points

\* C30: the baseline map has exactly the keys QB, RB, WR, TE, K, DST and is
\* the one computed without the DEF projections; calculate_vor stores for a
\* linked player of position DEF the full projected points of its linked
\* projection.
C30_DefHasNoBaseline ==
    /\ CalledBaselines =>
           /\ DOMAIN ret.value = {"QB", "RB", "WR", "TE", "K", "DST"}
           /\ calculate_replacement_baselines(WithoutDef(args.fp_players),
                  args.roster_slots, args.num_teams, args.buffer_percentage) = ret
    /\ CalledVor =>
           \A i \in LinkedDefPlaces : ret.value[args.players[i].id] = ProjectedPoints(i)

\* C30 witness: a player linked to the lower of two DEF projections gets
\* that projection's points as VOR
C30_LowerDefKeepsItsPoints ==
    /\ CalledVor
    /\ \E i \in LinkedDefPlaces :
          /\ ret.value[args.players[i].id] = ProjectedPoints(i)
          /\ \E k \in 1..Len(args.fp_players) :
                 /\ args.fp_players[k].position = "DEF"
                 /\ args.fp_players[k].ros_points > ProjectedPoints(i)
                 /\ ProjectedPoints(i) > 0

-----------------------------------------------------------------------------
(* Claims about the lineup optimizer, checked under SpecLineup *)

CalledLineup == pc = "done" /\ op = "calculate_lineup_vor"

\* the lineup the call selected
Selected == SelectLineup(args.lineup_players, args.vor_values, args.roster_slots)

PoolPlaces == 1..Len(args.lineup_players)
PoolVor(i) == Get(args.vor_values, args.lineup_players[i].id, 0)
PoolTotal == SumSeq([i \in PoolPlaces |-> PoolVor(i)])

DistinctIds ==
    \A i, j \in PoolPlaces :
        args.lineup_players[i].id = args.lineup_players[j].id => i = j

\* a feasible lineup: each player of the pool in a fixed slot of its position,
\* in a FLEX slot, or left out; at most slots[pos] players in the fixed slots
\* of pos in QB, RB, WR, TE, and at most FLEX players of RB, WR, TE in FLEX
Feasible(a) ==
    /\ \A i \in PoolPlaces :
          /\ a[i] = "fixed" =>
                 args.lineup_players[i].position \in {"QB", "RB", "WR", "TE"}
          /\ a[i] = "flex" =>
                 args.lineup_players[i].position \in {"RB", "WR", "TE"}
    /\ \A pos \in {"QB", "RB", "WR", "TE"} :
          Cardinality({i \in PoolPlaces :
              a[i] = "fixed" /\ args.lineup_players[i].position = pos})
          <= args.roster_slots[pos]
    /\ Cardinality({i \in PoolPlaces : a[i] = "flex"}) <= args.roster_slots.FLEX

LineupValue(a) ==
    SumSeq([i \in PoolPlaces |-> IF a[i] = "out" THEN 0 ELSE PoolVor(i)])

FeasibleLineups ==
    {a \in [PoolPlaces -> {"fixed", "flex", "out"}] : Feasible(a)}

\* C4: for a pool with distinct ids (and VOR >= 0), calculate_lineup_vor
\* returns the largest total VOR of any feasible lineup.
C4_LineupIsOptimal ==
    (CalledLineup /\ DistinctIds) =>
        /\ \A a \in FeasibleLineups : LineupValue(a) <= ret.value
        /\ \E a \in FeasibleLineups : LineupValue(a) = ret.value

\* C4 witness: a FLEX slot goes to the best player the fixed slots left over,
\* and a player with positive VOR stays out
C4_FlexChoiceMade ==
    /\ CalledLineup /\ DistinctIds
    /\ args.roster_slots.FLEX >= 1
    /\ Len(Selected.picked) >= 3
    /\ \E i \in PoolPlaces :
          /\ i \notin Range(Selected.picked)
          /\ PoolVor(i) > 0
          /\ args.lineup_players[i].position \in {"RB", "WR", "TE"}

\* C5: with VOR >= 0, calculate_lineup_vor never exceeds the sum of the VOR
\* of all players of the pool.
C5_LineupAtMostPoolTotal ==
    CalledLineup => ret.value <= PoolTotal

\* C5 witness: a pool in which two records share an id, with a lineup worth
\* less than the pool
C5_StrictlyBelowPoolTotal ==
    /\ CalledLineup /\ ~DistinctIds
    /\ 0 < ret.value /\ ret.value < PoolTotal

EveryPlayerSelected == \A i \in PoolPlaces : i \in Range(Selected.picked)

\* C6 as stated: the result equals the pool total if and only if every player
\* of the pool is selected.
C6_EqualIffAllSelected ==
    CalledLineup => ((ret.value = PoolTotal) <=> EveryPlayerSelected)

\* C6 amended: with VOR >= 0, the result equals the pool total if and only if
\* every player that is not selected has VOR 0.
C6_EqualIffUnselectedWorthless ==
    CalledLineup =>
        ((ret.value = PoolTotal) <=>
            \A i \in PoolPlaces :
                i \notin Range(Selected.picked) => PoolVor(i) = 0)

\* C6 witness: the result equals the pool total although a player of VOR 0
\* found no slot
C6_EqualWithPlayerLeftOut ==
    /\ CalledLineup
    /\ ret.value = PoolTotal /\ ret.value > 0
    /\ ~EveryPlayerSelected

\* the positions without a RosterSlots field that are not FLEX-eligible
KickerPositions == {"K", "DST", "DEF"}

WithoutKickers(players) ==
    SelectSeq(players, LAMBDA p : p.position \notin KickerPositions)

\* the pool with its K, DST and DEF players all given the position kp
Relabelled(players, kp) ==
    [i \in 1..Len(players) |->
        IF players[i].position \in KickerPositions
        THEN [players[i] EXCEPT !.position = kp]
        ELSE players[i]]

\* C27: players of position K, DST or DEF never contribute to lineup VOR:
\* whichever of the three positions the pool's kickers have, the result is
\* the one for the pool without them; and for every way to read the pool as
\* a post-trade roster (the players kept, then the players received) the
\* result is the one without the K, DST and DEF players received, so a side
\* gains nothing through such a player.
C27_KickersNeverCount ==
    CalledLineup /\ WithoutKickers(args.lineup_players) /= args.lineup_players =>
        \A kp \in KickerPositions :
            LET pool == Relabelled(args.lineup_players, kp)
            IN  /\ calculate_lineup_vor(pool, args.vor_values, args.roster_slots)
                       = ret.value
                /\ calculate_lineup_vor(WithoutKickers(pool), args.vor_values,
                       args.roster_slots) = ret.value
                /\ \A n \in 0..Len(pool) :
                       calculate_lineup_vor(
                           SubSeq(pool, 1, n)
                               \o WithoutKickers(SubSeq(pool, n + 1, Len(pool))),
                           args.vor_values, args.roster_slots) = ret.value

\* C27 witness: a kicker is the only player of positive VOR in the pool, a
\* FLEX slot stays empty, and the lineup is worth nothing
C27_BestPlayerIsKickerLeftOut ==
    /\ CalledLineup
    /\ args.roster_slots.FLEX > 0
    /\ \E i \in PoolPlaces :
          /\ args.lineup_players[i].position \in KickerPositions
          /\ PoolVor(i) > 0
    /\ \E i \in PoolPlaces :
          args.lineup_players[i].position \notin KickerPositions
    /\ ret.value = 0

-----------------------------------------------------------------------------
(* Claims about the trade generator, checked under SpecTrade *)

CalledTrade == pc = "done" /\ op = "generate_trade_ideas"

TheOtherRosters == OtherRosters(args.my_roster, args.all_rosters)

\* the candidates evaluated against one other roster
CandidatesAgainst(their_roster) ==
    TeamCandidates(args.my_roster, their_roster, args.vor_values,
                   args.max_players_per_side, args.consider_2_for_1)

ImprovementsOf(c, their_roster) ==
    Improvements(c.my_players, c.their_players, args.my_roster, their_roster,
                 args.vor_values, args.roster_slots)

\* what _evaluate_trade makes of a candidate: <<idea>> or <<>>
IdeaOf(c, their_roster) ==
    _evaluate_trade(c.my_players, c.their_players, args.my_roster, their_roster,
                    args.vor_values, args.roster_slots, min_improvement_threshold)

\* the candidates evaluated against every other roster, each with its two
\* improvements and with what _evaluate_trade makes of it
Evaluations ==
    UNION {LET their_roster == TheOtherRosters[r]
               candidates == CandidatesAgainst(their_roster)
           IN  {[candidate |-> candidates[n],
                 imp |-> ImprovementsOf(candidates[n], their_roster),
                 idea |-> IdeaOf(candidates[n], their_roster)] :
                    n \in 1..Len(candidates)} :
           r \in 1..Len(TheOtherRosters)}

\* C2: every returned TradeIdea has score_me and score_them at or above the
\* minimum-improvement threshold, and comes from a candidate in which both
\* sides' lineup VOR improves by at least the threshold.
C2_BothSidesReachThreshold ==
    CalledTrade =>
        LET evaluations == Evaluations
        IN  \A k \in 1..Len(ret.value) :
                /\ ret.value[k].score_me >= min_improvement_threshold
                /\ ret.value[k].score_them >= min_improvement_threshold
                /\ \E e \in evaluations :
                       /\ e.idea = <<ret.value[k]>>
                       /\ e.imp.me >= min_improvement_threshold
                       /\ e.imp.them >= min_improvement_threshold

\* C2 witness: a proposal is returned with a score of exactly the threshold,
\* and a candidate that helps one side by the threshold and the other by less
\* is not returned
C2_OneSidedCandidateRejected ==
    /\ CalledTrade
    /\ \E k \in 1..Len(ret.value) :
          ret.value[k].score_me = min_improvement_threshold
    /\ \E e \in Evaluations :
          /\ e.imp.me >= min_improvement_threshold
          /\ e.imp.them < min_improvement_threshold
          /\ e.idea = <<>>

\* the ids a lineup counted, one per selection
CountedIds(lineup_players, sel) ==
    [k \in 1..Len(sel.picked) |-> lineup_players[sel.picked[k]].id]

NoIdTwice(ids) == \A i, j \in 1..Len(ids) : ids[i] = ids[j] => i = j

PostTradeLineupCountsNoIdTwice(post_trade) ==
    NoIdTwice(CountedIds(post_trade,
        SelectLineup(post_trade, args.vor_values, args.roster_slots)))

\* C3: in the lineup selected for every post-trade roster that _evaluate_trade
\* builds, no player id is counted more than once across the fixed and the
\* FLEX selections, whatever rosters the caller supplies.
C3_NoIdCountedTwice ==
    CalledTrade =>
        \A r \in 1..Len(TheOtherRosters) :
            \A n \in 1..Len(CandidatesAgainst(TheOtherRosters[r])) :
                LET c == CandidatesAgainst(TheOtherRosters[r])[n]
                IN  /\ PostTradeLineupCountsNoIdTwice(
                           PostTrade(args.my_roster, c.my_players, c.their_players))
                    /\ PostTradeLineupCountsNoIdTwice(
                           PostTrade(TheOtherRosters[r], c.their_players,
                                     c.my_players))

\* the accepted proposals of all other rosters, before the sort and the cut
Accepted ==
    AcceptedTrades(args.my_roster, TheOtherRosters, args.vor_values,
        args.roster_slots, args.max_players_per_side, args.consider_2_for_1,
        min_improvement_threshold)

Combined(t) == t.score_me + t.score_them
Occurrences(list, x) == Cardinality({i \in 1..Len(list) : list[i] = x})

\* the accepted proposals that the returned list does not hold
LeftOut(accepted, returned) ==
    {x \in Range(accepted) : Occurrences(accepted, x) > Occurrences(returned, x)}

\* C9: the result is the accepted proposals ordered by score_me + score_them
\* descending and cut to 50: it has min(50, accepted) entries, all of them
\* accepted proposals, in non-increasing combined score, and no proposal left
\* out has a combined score above one that is returned.
C9_TopFiftyByCombinedScore ==
    CalledTrade =>
        LET accepted == Accepted
            left_out == LeftOut(accepted, ret.value)
        IN  /\ Len(ret.value) = Min(DEFAULT_MAX_RESULTS, Len(accepted))
            /\ \A x \in Range(ret.value) :
                   Occurrences(ret.value, x) <= Occurrences(accepted, x)
            /\ \A k \in 1..(Len(ret.value) - 1) :
                   Combined(ret.value[k]) >= Combined(ret.value[k + 1])
            /\ \A x \in left_out :
                   \A k \in 1..Len(ret.value) :
                       Combined(x) <= Combined(ret.value[k])

\* C9 witness: more than 50 proposals are accepted, of different combined
\* scores, and the cut leaves some out
C9_CutAtFifty ==
    /\ CalledTrade
    /\ Len(ret.value) = DEFAULT_MAX_RESULTS
    /\ Combined(ret.value[1]) > Combined(ret.value[DEFAULT_MAX_RESULTS])
    /\ LET accepted == Accepted
       IN  /\ Len(accepted) > DEFAULT_MAX_RESULTS
           /\ LeftOut(accepted, ret.value) /= {}

\* every player the call was given, mine and the other rosters'
PlayersGiven ==
    Range(args.my_roster.players)
    \cup UNION {Range(TheOtherRosters[r].players) : r \in 1..Len(TheOtherRosters)}

TradedPlayers(idea) == Range(idea.send) \cup Range(idea.receive)

\* C10: every player in the send or receive list of a returned proposal has a
\* strictly positive value in the VOR map; a player whose VOR is 0 or who is
\* absent from the map is in no proposal.
C10_OnlyPositiveVorTraded ==
    CalledTrade =>
        \A k \in 1..Len(ret.value) :
            /\ \A tp \in TradedPlayers(ret.value[k]) : tp.vor > 0
            /\ \A p \in PlayersGiven :
                   Get(args.vor_values, p.id, 0) <= 0 =>
                       \A tp \in TradedPlayers(ret.value[k]) :
                           ~(tp.player = p.name /\ tp.pos = p.position)

\* C10 witness: a proposal is returned although the two teams hold a player
\* of VOR 0
C10_WorthlessPlayerHeld ==
    /\ CalledTrade
    /\ Len(ret.value) >= 1
    /\ \E p \in PlayersGiven :
          p.id \in DOMAIN args.vor_values /\ args.vor_values[p.id] = 0

\* the rosters of all_rosters whose team_id is not mine
ForeignRosters ==
    {args.all_rosters[r] : r \in {q \in 1..Len(args.all_rosters) :
        args.all_rosters[q].team_id /= args.my_roster.team_id}}

\* the proposals _generate_team_trades accepts against one roster
ProposalsAgainst(roster) ==
    Range(_generate_team_trades(args.my_roster, roster, args.vor_values,
              args.roster_slots, args.max_players_per_side,
              args.consider_2_for_1, min_improvement_threshold))

\* C11: a roster of all_rosters with my team_id is never the opposing roster:
\* every returned proposal is one accepted against a roster with another
\* team_id, and the result is empty when all_rosters holds my team only.
C11_OwnRosterNeverOpposed ==
    CalledTrade =>
        LET foreign == ForeignRosters
            proposals == UNION {ProposalsAgainst(roster) : roster \in foreign}
        IN  /\ \A k \in 1..Len(ret.value) : ret.value[k] \in proposals
            /\ foreign = {} => ret.value = <<>>

\* C11 witness: all_rosters lists my team with players that would make an
\* accepted trade with my roster, and the call returns nothing from it
C11_OwnListingSkipped ==
    /\ CalledTrade
    /\ args.all_rosters /= <<>>
    /\ ForeignRosters = {}
    /\ \E r \in 1..Len(args.all_rosters) :
          ProposalsAgainst(args.all_rosters[r]) /= {}
    /\ ret.value = <<>>

\* how many players of a roster have a strictly positive VOR
PoolSize(roster) ==
    Cardinality({i \in 1..Len(roster.players) :
        Get(args.vor_values, roster.players[i].id, 0) > 0})

\* C12: an empty or short candidate pool is no error: against every opposing
\* roster no candidate has more players on a side than that side's roster has
\* players of positive VOR (none at all from an empty pool, no 2-player side
\* from a pool of one), and when no candidate is accepted the call returns
\* the empty list.
C12_EmptyPoolsYieldNoCandidates ==
    CalledTrade =>
        /\ ret.raised = None
        /\ \A roster \in ForeignRosters :
               LET candidates == CandidatesAgainst(roster)
               IN  \A n \in 1..Len(candidates) :
                       /\ Len(candidates[n].my_players) <= PoolSize(args.my_roster)
                       /\ Len(candidates[n].their_players) <= PoolSize(roster)
        /\ (\A roster \in ForeignRosters : ProposalsAgainst(roster) = {})
               => ret.value = <<>>

\* C12 witness: 2-player shapes are allowed, my roster holds a worthless
\* player and one player of positive VOR, the other roster holds two, some
\* candidates are evaluated, none is accepted and the empty list is returned
C12_ShortPoolNothingAccepted ==
    /\ CalledTrade
    /\ args.consider_2_for_1 /\ args.max_players_per_side >= 2
    /\ Len(args.my_roster.players) = 2 /\ PoolSize(args.my_roster) = 1
    /\ \E roster \in ForeignRosters :
          /\ PoolSize(roster) = 2
          /\ CandidatesAgainst(roster) /= <<>>
    /\ ret = Returned(<<>>)

\* the call is roster A against roster B of the two-team scenario
ScenarioCalled ==
    /\ CalledTrade
    /\ args.my_roster = ScenarioRosterA
    /\ ForeignRosters = {ScenarioRosterB}
    /\ args.vor_values = ScenarioVor
    /\ args.roster_slots = ScenarioSlots
    /\ args.max_players_per_side \in 1..2

\* C13: roster A (QB 15, RB 12) against roster B (QB 10, RB 8) with slots
\* QB=1, RB=1, FLEX=0 and threshold 1.0 returns the empty list, for
\* max_players_per_side 1 and 2 and either value of consider_2_for_1.
C13_ScenarioReturnsNothing ==
    (ScenarioCalled /\ min_improvement_threshold = 100) => ret = Returned(<<>>)

\* C13 witness: the scenario is run with every shape allowed, and one of its
\* candidates improves roster B by at least the threshold
C13_ScenarioHelpsOneSideOnly ==
    /\ ScenarioCalled
    /\ args.max_players_per_side = 2 /\ args.consider_2_for_1
    /\ \E e \in Evaluations :
          e.imp.them >= min_improvement_threshold /\ e.imp.me < 0
    /\ ret = Returned(<<>>)

\* C17: generate_trade_ideas changes none of its inputs and no analyzer
\* state: my roster, the rosters of all_rosters, the VOR map, the roster
\* slots, min_improvement_threshold and max_trade_size are after the call
\* what they were before it, whether or not a proposal was accepted.
C17_InputsAndAnalyzerUntouched ==
    [][GenerateTradeIdeas =>
          /\ args'.my_roster = args.my_roster
          /\ args'.all_rosters = args.all_rosters
          /\ args'.vor_values = args.vor_values
          /\ args'.roster_slots = args.roster_slots
          /\ min_improvement_threshold' = min_improvement_threshold
          /\ max_trade_size' = max_trade_size]_vars

\* C17 witness: a call has returned a proposal in which two of my players
\* are sent, so post-trade rosters were built and evaluated
C17_ProposalWithTwoSent ==
    /\ CalledTrade
    /\ \E k \in 1..Len(ret.value) : Len(ret.value[k].send) = 2
    /\ min_improvement_threshold = DEFAULT_MIN_IMPROVEMENT
    /\ max_trade_size = DEFAULT_MAX_TRADE_SIZE

\* the shape of a proposal: players sent, players received
Shape(idea) == <<Len(idea.send), Len(idea.receive)>>

\* C20: every returned proposal is 1-for-1, 2-for-1, 1-for-2 or 2-for-2; with
\* max_players_per_side = 1 only 1-for-1 is returned; 2-for-1 and 1-for-2 are
\* returned only when consider_2_for_1 is true and max_players_per_side >= 2;
\* 2-for-2 only when max_players_per_side >= 2, whatever consider_2_for_1 is.
C20_ShapesGatedByOptions ==
    CalledTrade =>
        \A k \in 1..Len(ret.value) :
            LET shape == Shape(ret.value[k])
            IN  /\ shape \in {<<1, 1>>, <<2, 1>>, <<1, 2>>, <<2, 2>>}
                /\ args.max_players_per_side = 1 => shape = <<1, 1>>
                /\ shape \in {<<2, 1>>, <<1, 2>>} =>
                       (args.consider_2_for_1 /\ args.max_players_per_side >= 2)
                /\ shape = <<2, 2>> => args.max_players_per_side >= 2

\* C20 witness: with consider_2_for_1 false and max_players_per_side = 2 a
\* 2-for-2 proposal and a 1-for-1 proposal are returned
C20_TwoForTwoWithoutUneven ==
    /\ CalledTrade
    /\ ~args.consider_2_for_1 /\ args.max_players_per_side = 2
    /\ \E k \in 1..Len(ret.value) : Shape(ret.value[k]) = <<2, 2>>
    /\ \E k \in 1..Len(ret.value) : Shape(ret.value[k]) = <<1, 1>>

\* the ids of the players on one side of a candidate
SideIds(side) == {side[i].id : i \in 1..Len(side)}

\* the players of a roster have pairwise different ids
DistinctRosterIds(roster) ==
    \A i, j \in 1..Len(roster.players) :
        roster.players[i].id = roster.players[j].id => i = j

\* the proposals _generate_team_trades accepts against one roster, in order
ProposalList(roster) ==
    _generate_team_trades(args.my_roster, roster, args.vor_values,
        args.roster_slots, args.max_players_per_side,
        args.consider_2_for_1, min_improvement_threshold)

\* C21: against one opposing roster whose players, like mine, have distinct
\* ids, no two evaluated candidates send the same set of players and receive
\* the same set of players, and the proposals accepted against that roster
\* hold no trade twice, in whatever order its players are listed.
C21_NoTradeTwicePerRoster ==
    CalledTrade =>
        \A roster \in ForeignRosters :
            DistinctRosterIds(args.my_roster) /\ DistinctRosterIds(roster) =>
                LET candidates == CandidatesAgainst(roster)
                    proposals == ProposalList(roster)
                IN  /\ \A n, m \in 1..Len(candidates) :
                           /\ SideIds(candidates[n].my_players)
                                  = SideIds(candidates[m].my_players)
                           /\ SideIds(candidates[n].their_players)
                                  = SideIds(candidates[m].their_players)
                           => n = m
                    /\ \A n, m \in 1..Len(proposals) :
                           /\ Range(proposals[n].send) = Range(proposals[m].send)
                           /\ Range(proposals[n].receive)
                                  = Range(proposals[m].receive)
                           => n = m

\* C21 witness: against one roster several two-player sides are evaluated and
\* two different 2-for-2 proposals are accepted
C21_SeveralTwoForTwoAccepted ==
    /\ CalledTrade
    /\ \E roster \in ForeignRosters :
          /\ DistinctRosterIds(args.my_roster) /\ DistinctRosterIds(roster)
          /\ LET proposals == ProposalList(roster)
             IN  \E n, m \in 1..Len(proposals) :
                     /\ n /= m
                     /\ Shape(proposals[n]) = <<2, 2>>
                     /\ Shape(proposals[m]) = <<2, 2>>

\* the orders in which a list of n rosters can be handed over
Orders(n) == {f \in [1..n -> 1..n] : \A i, j \in 1..n : f[i] = f[j] => i = j}

\* all_rosters with its places permuted by f
Permuted(rosters, f) == [k \in 1..Len(rosters) |-> rosters[f[k]]]

\* C22: the ordered list generate_trade_ideas returns does not depend on the
\* order of all_rosters: for every permutation of all_rosters the call
\* returns the same list, ties on combined score included.
C22_RosterOrderIrrelevant ==
    CalledTrade =>
        \A f \in Orders(Len(args.all_rosters)) :
            generate_trade_ideas(args.my_roster, Permuted(args.all_rosters, f),
                args.vor_values, args.roster_slots, args.max_players_per_side,
                args.consider_2_for_1, min_improvement_threshold) = ret.value

\* SUPERFLEX and BENCH counts other than the ones of the call
SuperflexCounts == {1}
BenchCounts == {0}

\* the slot configurations that differ from the call's in SUPERFLEX only, or
\* in BENCH only
SlotVariants ==
    {[args.roster_slots EXCEPT !.SUPERFLEX = n] : n \in SuperflexCounts}
    \cup {[args.roster_slots EXCEPT !.BENCH = n] : n \in BenchCounts}

\* C23: the lineup optimizer consumes neither SUPERFLEX nor BENCH: under a
\* slot configuration that differs in SUPERFLEX only, or in BENCH only,
\* calculate_lineup_vor gives the same value for my roster and for every
\* listed roster, and generate_trade_ideas returns the same proposals.
C23_SuperflexAndBenchIgnored ==
    CalledTrade =>
        \A slots \in SlotVariants :
            /\ \A r \in 1..Len(args.all_rosters) :
                   calculate_lineup_vor(args.all_rosters[r].players,
                       args.vor_values, slots)
                   = calculate_lineup_vor(args.all_rosters[r].players,
                         args.vor_values, args.roster_slots)
            /\ calculate_lineup_vor(args.my_roster.players, args.vor_values, slots)
               = calculate_lineup_vor(args.my_roster.players, args.vor_values,
                     args.roster_slots)
            /\ generate_trade_ideas(args.my_roster, args.all_rosters,
                   args.vor_values, slots, args.max_players_per_side,
                   args.consider_2_for_1, min_improvement_threshold) = ret.value

\* C23 witness: a call that returns proposals although my roster has a
\* player of positive VOR left out of the lineup whom a further flex slot
\* would take
C23_SpareFlexPlayerUnused ==
    /\ CalledTrade
    /\ ret.value /= <<>>
    /\ LET mine == SelectLineup(args.my_roster.players, args.vor_values,
                                args.roster_slots)
       IN  \E i \in 1..Len(args.my_roster.players) :
               /\ args.my_roster.players[i].id \notin mine.used_players
               /\ args.my_roster.players[i].position \in Range(flex_positions)
               /\ Get(args.vor_values, args.my_roster.players[i].id, 0) > 0

\* how often a note text stands in a rationale
NoteCount(notes, text) ==
    Cardinality({k \in 1..Len(notes) : notes[k].note = text})

\* C24: in the rationale of every accepted proposal the balanced note stands
\* exactly when the two improvements differ by less than the balance
\* threshold (1.0); otherwise exactly one advantage note stands, "to you" when
\* my improvement is the larger one and "to them" otherwise.
C24_BalanceNoteByImprovements ==
    CalledTrade =>
        \A e \in Evaluations :
            e.idea /= <<>> =>
                LET notes == e.idea[1].notes
                    balanced ==
                        NoteCount(notes, "Balanced trade benefits both teams equally")
                    to_you == NoteCount(notes, "Slight advantage to you")
                    to_them == NoteCount(notes, "Slight advantage to them")
                IN  IF Abs(e.imp.me - e.imp.them) < BALANCED_TRADE_THRESHOLD
                    THEN balanced = 1 /\ to_you = 0 /\ to_them = 0
                    ELSE /\ balanced = 0
                         /\ to_you = (IF e.imp.me > e.imp.them THEN 1 ELSE 0)
                         /\ to_them = (IF e.imp.me > e.imp.them THEN 0 ELSE 1)

\* C24 witness: one call returns a balanced proposal, one with the advantage
\* on my side and one with the advantage on the other side
C24_AllThreeBalanceNotesReturned ==
    /\ CalledTrade
    /\ \E k \in 1..Len(ret.value) :
          NoteCount(ret.value[k].notes,
                    "Balanced trade benefits both teams equally") = 1
    /\ \E k \in 1..Len(ret.value) :
          NoteCount(ret.value[k].notes, "Slight advantage to you") = 1
    /\ \E k \in 1..Len(ret.value) :
          NoteCount(ret.value[k].notes, "Slight advantage to them") = 1

\* the rationale _generate_trade_notes writes for every candidate evaluated,
\* accepted or not, each with the candidate it is written for
Rationales ==
    UNION {LET their_roster == TheOtherRosters[r]
               candidates == CandidatesAgainst(their_roster)
           IN  {LET c == candidates[n]
                    imp == ImprovementsOf(c, their_roster)
                IN  [candidate |-> c,
                     notes |-> _generate_trade_notes(c.my_players,
                                   c.their_players, imp.me, imp.them)] :
                    n \in 1..Len(candidates)} :
           r \in 1..Len(TheOtherRosters)}

BalanceNotes ==
    {"Balanced trade benefits both teams equally", "Slight advantage to you",
     "Slight advantage to them"}

\* C25: the fallback rationale is unreachable: the rationale of every
\* candidate, accepted or not, holds exactly one of the three balance notes,
\* so it is never empty and never the "Mutual benefit" summary.
C25_FallbackNeverProduced ==
    CalledTrade =>
        \A e \in Rationales :
            /\ e.notes /= <<>>
            /\ Cardinality({k \in 1..Len(e.notes) :
                                e.notes[k].note \in BalanceNotes}) = 1
            /\ NoteCount(e.notes, "Mutual benefit") = 0

\* C25 witness: a candidate that fires neither the position rule nor the
\* bye-week rule, so that its balance note is its whole rationale, and whose
\* balance note is the one of the final else branch
C25_BalanceNoteAlone ==
    /\ CalledTrade
    /\ \E e \in Rationales :
          e.notes = <<[note |-> "Slight advantage to them"]>>

\* the players of my roster and of the other roster have pairwise different
\* ids, within each roster and across the two
DistinctIdsWith(their_roster) ==
    /\ DistinctRosterIds(args.my_roster)
    /\ DistinctRosterIds(their_roster)
    /\ SideIds(args.my_roster.players) \cap SideIds(their_roster.players) = {}

\* the 1-for-1 candidates that exchange two players of one position, each
\* with its two improvements and with what _evaluate_trade makes of it
SamePositionSwaps ==
    UNION {LET their_roster == TheOtherRosters[r]
               candidates == CandidatesAgainst(their_roster)
           IN  {[candidate |-> candidates[n],
                 imp |-> ImprovementsOf(candidates[n], their_roster),
                 idea |-> IdeaOf(candidates[n], their_roster)] :
                    n \in {m \in 1..Len(candidates) :
                        /\ DistinctIdsWith(their_roster)
                        /\ Len(candidates[m].my_players) = 1
                        /\ Len(candidates[m].their_players) = 1
                        /\ candidates[m].my_players[1].position
                              = candidates[m].their_players[1].position}} :
           r \in 1..Len(TheOtherRosters)}

\* thresholds above zero, in hundredths of a point
PositiveThresholds == {1, DEFAULT_MIN_IMPROVEMENT}

\* C26: with distinct ids and a positive threshold no accepted 1-for-1
\* proposal exchanges two players of the same position: such a candidate
\* never improves both sides, so _evaluate_trade rejects it.
C26_NoSamePositionSwapAccepted ==
    CalledTrade =>
        \A e \in SamePositionSwaps :
            /\ e.idea = <<>>
            /\ ~(e.imp.me > 0 /\ e.imp.them > 0)
            /\ \A t \in PositiveThresholds : ~Accepts(e.imp, t)

\* C26 witness: a same-position 1-for-1 candidate that improves one side by
\* the threshold or more is evaluated and rejected
C26_OneSidedSwapRejected ==
    /\ CalledTrade
    /\ \E e \in SamePositionSwaps :
          /\ e.imp.me >= min_improvement_threshold
          /\ e.idea = <<>>

\* the values of max_players_per_side from 2 up to the most TradeRequest
\* admits
SideLimits == 2..MAX_PLAYERS_PER_SIDE

\* C28: no returned proposal has more than 2 players on a side; against
\* every opposing roster the candidates are the same for every limit from 2
\* to 5, and a call with max_players_per_side of 2 or more returns what it
\* returns for the limits 2 and 5.
C28_LimitAboveTwoChangesNothing ==
    CalledTrade =>
        /\ \A k \in 1..Len(ret.value) :
               Len(ret.value[k].send) <= 2 /\ Len(ret.value[k].receive) <= 2
        /\ args.max_players_per_side >= 2 =>
               /\ \A roster \in ForeignRosters :
                      LET candidates == CandidatesAgainst(roster)
                      IN  \A m \in SideLimits :
                              TeamCandidates(args.my_roster, roster,
                                  args.vor_values, m, args.consider_2_for_1)
                              = candidates
               /\ \A m \in {2, MAX_PLAYERS_PER_SIDE} \ {args.max_players_per_side} :
                      generate_trade_ideas(args.my_roster, args.all_rosters,
                          args.vor_values, args.roster_slots, m,
                          args.consider_2_for_1, min_improvement_threshold)
                      = ret.value

\* C28 witness: a call with max_players_per_side = 3 against a league whose
\* rosters have three tradeable players each returns a 2-for-2 proposal
C28_LimitThreeReturnsTwoForTwo ==
    /\ CalledTrade
    /\ args.max_players_per_side = 3
    /\ PoolSize(args.my_roster) >= 2
    /\ \E k \in 1..Len(ret.value) : Shape(ret.value[k]) = <<2, 2>>

\* the sum of the VOR of the players of one side of a candidate
SideVor(side) ==
    SumSeq([i \in 1..Len(side) |-> Get(args.vor_values, side[i].id, 0)])

NonNegativeVor == \A id \in DOMAIN args.vor_values : args.vor_values[id] >= 0

\* the candidates evaluated against the rosters that share no id with mine,
\* each with its two improvements
DistinctIdEvaluations ==
    UNION {LET their_roster == TheOtherRosters[r]
               candidates == CandidatesAgainst(their_roster)
           IN  IF DistinctIdsWith(their_roster)
               THEN {[candidate |-> candidates[n],
                      imp |-> ImprovementsOf(candidates[n], their_roster)] :
                         n \in 1..Len(candidates)}
               ELSE {} :
           r \in 1..Len(TheOtherRosters)}

\* C29: for rosters with distinct ids and a non-negative VOR map, in every
\* evaluated candidate my improvement is at most the sum of the VOR of the
\* players I receive, and the other side's improvement at most the sum of
\* the VOR of the players I send.
C29_ImprovementAtMostReceivedVor ==
    CalledTrade /\ NonNegativeVor =>
        \A e \in DistinctIdEvaluations :
            /\ e.imp.me <= SideVor(e.candidate.their_players)
            /\ e.imp.them <= SideVor(e.candidate.my_players)

\* C29 witness: a candidate between rosters of distinct ids in which my
\* improvement is the whole VOR of the players I receive, and the other
\* side's improvement is below the VOR of the players I send
C29_BoundReachedOnOneSide ==
    /\ CalledTrade /\ NonNegativeVor
    /\ \E e \in DistinctIdEvaluations :
          /\ e.imp.me = SideVor(e.candidate.their_players)
          /\ e.imp.me > 0
          /\ e.imp.them < SideVor(e.candidate.my_players)

-----------------------------------------------------------------------------
(* Claims about the recite service, checked under SpecRecite *)

\* recite_player_info has returned for a list of players and a limit >= 1
CalledRecite ==
    /\ pc = "done" /\ op = "recite_player_info"
    /\ args.players /= <<>> /\ args.limit >= 1

\* the VOR of a player or of a listed entry, an absent VOR counted as 0
VorOrZero(p) == IF p.vor /= <<>> THEN p.vor[1] ELSE 0

\* C19: top_players is in non-increasing VOR order (absent VOR counted 0),
\* has min(len(players), limit) entries, its first entry has the highest VOR
\* among all the players given, and total_players is len(players).
C19_HighestVorListedFirst ==
    CalledRecite =>
        LET top_players == ret.value.top_players
        IN  /\ ret.value.total_players = Len(args.players)
            /\ Len(top_players) = Min(Len(args.players), args.limit)
            /\ \A k \in 1..(Len(top_players) - 1) :
                   VorOrZero(top_players[k]) >= VorOrZero(top_players[k + 1])
            /\ \A i \in 1..Len(args.players) :
                   VorOrZero(top_players[1]) >= VorOrZero(args.players[i])

=============================================================================
